---- MODULE Spec2Model ----
(***************************************************************************)
(* TinyICOC - AVR In-Circuit Oscillator Calibrator (ATtiny84).             *)
(* A state-machine model of the firmware: the ICSP protocol engine, the    *)
(* gated frequency counter and the calibration loop of main().             *)
(*                                                                         *)
(* Three specifications share the variables:                              *)
(*   Spec       the controller main() with the ICSP calls and the gate    *)
(*              interrupt, over an unbounded sequence of runs;             *)
(*   FairSpec   Spec with weak fairness of the firmware's own steps;       *)
(*   SpecFlash  ICSP_writeFlash stepped one loop iteration at a time over  *)
(*              a family of target descriptors.                            *)
(***************************************************************************)
EXTENDS Integers, Sequences, FiniteSets, TLC

(***************************************************************************)
(* Bounds of the model                                                     *)
(***************************************************************************)

\* Measured frequencies within MaxDev kHz of the expected frequency are
\* enumerated, besides the two extremes 0 and 32767.
MaxDev == 1

\* Longest image length (bytes) of the synthetic descriptors of SpecFlash.
MaxProgLen == 24

\* most pulses followed through one gate window of SpecFrq
MaxPulses == 65540

\* most instructions followed between two ICSP_enterProgMode of SpecLink
MaxSent == 3

(***************************************************************************)
(* Machine arithmetic                                                      *)
(***************************************************************************)

RECURSIVE BitAnd(_, _)
\* a & b on non-negative integers
BitAnd(a, b) ==
  IF a = 0 \/ b = 0 THEN 0
  ELSE (a % 2) * (b % 2) + 2 * BitAnd(a \div 2, b \div 2)

RECURSIVE BitOr(_, _)
\* a | b on non-negative integers
BitOr(a, b) ==
  IF a = 0 THEN b
  ELSE IF b = 0 THEN a
  ELSE (IF a % 2 = 1 \/ b % 2 = 1 THEN 1 ELSE 0) + 2 * BitOr(a \div 2, b \div 2)

\* conversion to uint8_t / uint16_t
U8(x) == x % 256

U16(x) == x % 65536

(***************************************************************************)
(* Target chip definitions                                                 *)
(***************************************************************************)

\* PROG_T13: the calibration program image, byte by byte (decimal)
PROG_T13 ==
  <<9, 192, 14, 192, 13, 192, 12, 192, 11, 192, 10, 192, 9, 192, 8, 192,
     7, 192, 6, 192, 17, 36, 31, 190, 207, 233, 205, 191, 2, 208, 18, 192,
     239, 207, 128, 224, 144, 224, 7, 208, 129, 191, 129, 224, 135, 187, 146, 228,
     159, 189, 131, 191, 255, 207, 225, 153, 254, 207, 142, 187, 224, 154, 153, 39,
     141, 179, 8, 149, 248, 148, 255, 207 >>

\* PROG_Tx5: the calibration program image, byte by byte (decimal)
PROG_Tx5 ==
  <<14, 192, 19, 192, 18, 192, 17, 192, 16, 192, 15, 192, 14, 192, 13, 192,
     12, 192, 11, 192, 10, 192, 9, 192, 8, 192, 7, 192, 6, 192, 17, 36,
     31, 190, 207, 237, 205, 191, 2, 208, 19, 192, 234, 207, 128, 224, 144, 224,
     7, 208, 129, 191, 129, 224, 135, 187, 146, 228, 154, 189, 131, 191, 255, 207,
     225, 153, 254, 207, 31, 186, 142, 187, 224, 154, 153, 39, 141, 179, 8, 149,
     248, 148, 255, 207 >>

\* PROG_T24: the calibration program image, byte by byte (decimal)
PROG_T24 ==
  <<16, 192, 21, 192, 20, 192, 19, 192, 18, 192, 17, 192, 16, 192, 15, 192,
     14, 192, 13, 192, 12, 192, 11, 192, 10, 192, 9, 192, 8, 192, 7, 192,
     6, 192, 17, 36, 31, 190, 207, 237, 205, 191, 2, 208, 19, 192, 232, 207,
     128, 224, 144, 224, 7, 208, 129, 191, 128, 228, 138, 187, 143, 189, 137, 224,
     142, 189, 255, 207, 225, 153, 254, 207, 31, 186, 142, 187, 224, 154, 153, 39,
     141, 179, 8, 149, 248, 148, 255, 207 >>

\* PROG_T84: the calibration program image, byte by byte (decimal)
PROG_T84 ==
  <<16, 192, 23, 192, 22, 192, 21, 192, 20, 192, 19, 192, 18, 192, 17, 192,
     16, 192, 15, 192, 14, 192, 13, 192, 12, 192, 11, 192, 10, 192, 9, 192,
     8, 192, 17, 36, 31, 190, 207, 229, 210, 224, 222, 191, 205, 191, 2, 208,
     19, 192, 230, 207, 128, 224, 144, 224, 7, 208, 129, 191, 128, 228, 138, 187,
     143, 189, 137, 224, 142, 189, 255, 207, 225, 153, 254, 207, 159, 187, 142, 187,
     224, 154, 153, 39, 141, 179, 8, 149, 248, 148, 255, 207 >>

\* PROG_M8: the calibration program image, byte by byte (decimal)
PROG_M8 ==
  <<18, 192, 25, 192, 24, 192, 23, 192, 22, 192, 21, 192, 20, 192, 19, 192,
     18, 192, 17, 192, 16, 192, 15, 192, 14, 192, 13, 192, 12, 192, 11, 192,
     10, 192, 9, 192, 8, 192, 17, 36, 31, 190, 207, 229, 212, 224, 222, 191,
     205, 191, 2, 208, 18, 192, 228, 207, 128, 224, 144, 224, 6, 208, 129, 191,
     136, 224, 135, 187, 138, 225, 133, 189, 255, 207, 225, 153, 254, 207, 159, 187,
     142, 187, 224, 154, 153, 39, 141, 179, 8, 149, 248, 148, 255, 207 >>

\* The target table TGTs[] (index 0 of the C array is element 1 here).
TGTs ==
  << [SIG |-> 36871, LFUSE |-> 106, HFUSE |-> 255, EFUSE |-> 255, PSIZE |-> 16,
      PROG_LENGTH |-> 72, PROG |-> PROG_T13, FREQ |-> 9600, NAME |-> "ATTINY13  "],
     [SIG |-> 37128, LFUSE |-> 98, HFUSE |-> 223, EFUSE |-> 255, PSIZE |-> 16,
      PROG_LENGTH |-> 84, PROG |-> PROG_Tx5, FREQ |-> 8000, NAME |-> "ATTINY25  "],
     [SIG |-> 37382, LFUSE |-> 98, HFUSE |-> 223, EFUSE |-> 255, PSIZE |-> 32,
      PROG_LENGTH |-> 84, PROG |-> PROG_Tx5, FREQ |-> 8000, NAME |-> "ATTINY45  "],
     [SIG |-> 37643, LFUSE |-> 98, HFUSE |-> 223, EFUSE |-> 255, PSIZE |-> 32,
      PROG_LENGTH |-> 84, PROG |-> PROG_Tx5, FREQ |-> 8000, NAME |-> "ATTINY85  "],
     [SIG |-> 37131, LFUSE |-> 98, HFUSE |-> 223, EFUSE |-> 255, PSIZE |-> 16,
      PROG_LENGTH |-> 88, PROG |-> PROG_T24, FREQ |-> 8000, NAME |-> "ATTINY24  "],
     [SIG |-> 37383, LFUSE |-> 98, HFUSE |-> 223, EFUSE |-> 255, PSIZE |-> 32,
      PROG_LENGTH |-> 92, PROG |-> PROG_T84, FREQ |-> 8000, NAME |-> "ATTINY44  "],
     [SIG |-> 37644, LFUSE |-> 98, HFUSE |-> 223, EFUSE |-> 255, PSIZE |-> 32,
      PROG_LENGTH |-> 92, PROG |-> PROG_T84, FREQ |-> 8000, NAME |-> "ATTINY84  "],
     [SIG |-> 37639, LFUSE |-> 100, HFUSE |-> 223, EFUSE |-> 255, PSIZE |-> 32,
      PROG_LENGTH |-> 94, PROG |-> PROG_M8, FREQ |-> 8000, NAME |-> "ATMEGA8   "] >>

\* Number of target definitions
TGT_LENGTH == 8

\* The global TGT before the first memcpy_P: static storage, all zero.
TGT_ZERO ==
  [SIG |-> 0, LFUSE |-> 0, HFUSE |-> 0, EFUSE |-> 0, PSIZE |-> 0,
   PROG_LENGTH |-> 0, PROG |-> <<>>, FREQ |-> 0, NAME |-> ""]

(***************************************************************************)
(* Inputs: what the target and the environment may answer                  *)
(***************************************************************************)

\* Bytes the target may shift back during the third byte of the enable
\* command: the echo 0x53, or no echo.
EchoBytes == {83, 0}

\* Replies to the reads of signature bytes 1 and 2: an ATtiny13 (0x9007,
\* 9600 kHz), an ATtiny84 (0x930C, 8000 kHz), and 0x900C of no entry.
SigReplies == {<< 144, 7 >>, << 147, 12 >>, << 144, 12 >>}

\* Reply bytes to the calibration-byte read (the factory OSCCAL).
CalibBytes == {0, 255}

\* Pulse counts the gate window may see for expected frequency f (kHz):
\* none, the widest (odd) count of the 16-bit virtual counter, and the even
\* counts within MaxDev kHz of 2*f.
PulseCounts(f) ==
  {0, 65535} \cup {2 * g : g \in (f - MaxDev) .. (f + MaxDev)}

\* The byte that follows an image in program memory (read only when
\* PROG_LENGTH is odd or exceeds the image).
PadBytes == {0, 255}

(***************************************************************************)
(* State                                                                   *)
(***************************************************************************)

VARIABLES
  pc,            \* position of main() (or of ICSP_writeFlash in SpecFlash)
  DDRA,          \* data direction register A: the set of output pins
  PORTA,         \* port register A: the set of pins driven high / pulled up
  echo,          \* byte received by the last ICSP_enterProgMode as echo
  sent,          \* instructions sent since the last ICSP_enterProgMode
  lastOp,        \* history: the last ICSP call made ("none" before the first)
  touched,       \* history: target memories written to by the run
  TGT,           \* global TGT: runtime copy of the matched descriptor
  target,        \* main: index found by the table scan
  signature,     \* main: signature read
  rsig,          \* history: the replies to the reads of signature bytes 1, 2
  calib,         \* main: trial calibration byte
  frequency,     \* main: last measured frequency
  lastcalib,     \* main: best calibration byte so far
  difference,    \* main: best deviation so far
  FRQ_highByte,  \* high byte of virtual 16-bit timer0
  FRQ_busy,      \* sampling in progress flag
  TCNT0,         \* timer0 counter register
  TCCR0B,        \* timer0 control (0 = stopped)
  TCCR1B,        \* timer1 control (0 = stopped)
  tov0,          \* timer0 overflow interrupt flag (TIM0_OVF_vect pending)
  isr,           \* position inside TIM1_COMPA_vect ("none" outside of it)
  pulses,        \* history: pulses counted for the last FRQ_measure call
  oled,          \* banner shown on display rows 0 and 1
  shown,         \* glyphs last printed on display row 2 (value, frequency)
  meas,          \* history: <<calib, frequency>> of each measurement of the run
  eeLog,         \* history: EEPROM write instructions issued in the run
  prior,         \* history: how the previous run ended
  wf,            \* ICSP_writeFlash: its locals and the instructions sent
  pad,           \* the program-memory byte behind the image
  sb             \* ICSP_sendByte: its locals and what went over the lines

vars ==
  << pc, DDRA, PORTA, echo, sent, lastOp, touched, TGT, target, signature,
     rsig, calib, frequency, lastcalib, difference, FRQ_highByte, FRQ_busy, TCNT0,
     TCCR0B, TCCR1B, tov0, isr, pulses, oled, shown, meas, eeLog, prior, wf,
     pad, sb >>

ctlVars ==
  << target, signature, rsig, calib, frequency, lastcalib, difference >>

frqVars ==
  << FRQ_highByte, FRQ_busy, TCNT0, TCCR0B, TCCR1B, tov0, isr, pulses >>

linkVars ==
  << DDRA, PORTA, echo, sent, lastOp, touched >>

histVars ==
  << meas, eeLog, prior >>

flashVars ==
  << wf, pad, sb >>

(***************************************************************************)
(* In-Circuit Serial Programmer                                            *)
(***************************************************************************)

IcspPins == {"RST", "SCK", "MOSI"}

\* ICSP_init: the control lines low and outputs, MISO an input.
ICSP_init_PORTA(port) == port \ IcspPins

ICSP_init_DDRA(ddr) == (ddr \cup IcspPins) \ {"MISO"}

\* (variant) ICSP_release leaving the port bits as they are
ICSP_release_PORTA_Keep(port) == port

\* ICSP_release: the control lines inputs without pull-up.
ICSP_release_PORTA(port) == port \ IcspPins

ICSP_release_DDRA(ddr) == ddr \ IcspPins

\* ICSP_sendByte leaves SCK low and MOSI at the last bit shifted out, which
\* is bit 0 of the byte; an instruction ends with its fourth byte.
PortAfterSend(port, byte4) ==
  (port \ {"SCK", "MOSI"}) \cup (IF byte4 % 2 = 1 THEN {"MOSI"} ELSE {})

\* ICSP_sendByte before a call: nothing shifted yet.
SendByte_Idle == [arg |-> 0, byte |-> 0, i |-> 0, mosi |-> << >>, miso |-> << >>]

\* ICSP_sendByte(b) entered: byte = b, i = 8.
SendByte_Init(b) ==
  [arg |-> b, byte |-> b, i |-> 8, mosi |-> << >>, miso |-> << >>]

\* (variant) one pass of the loop shifting the least significant bit first
SendByte_Pass_LsbFirst(s, level) ==
  LET shifted == s.byte \div 2
  IN [s EXCEPT !.mosi = Append(s.mosi, s.byte % 2),
               !.miso = Append(s.miso, level),
               !.byte = IF level = 1 THEN BitOr(shifted, 128) ELSE shifted,
               !.i = s.i - 1]

\* ICSP_sendByte: one pass of the for loop, i-- included. MOSI gets bit 7 of
\* byte, byte <<= 1 on uint8_t, SCK goes high, MISO is sampled (level) into
\* bit 0, SCK goes low.
SendByte_Pass(s, level) ==
  LET shifted == U8(s.byte * 2)
  IN [s EXCEPT !.mosi = Append(s.mosi, BitAnd(s.byte, 128) \div 128),
               !.miso = Append(s.miso, level),
               !.byte = IF level # 0 THEN BitOr(shifted, 1) ELSE shifted,
               !.i = s.i - 1]

\* ICSP_sendInstr / ICSP_readInstr: the four bytes put on the wire.
ICSP_sendInstr(byte1, byte2, byte3, byte4) == << byte1, byte2, byte3, byte4 >>

ICSP_readInstr(byte1, byte2, byte3) == << byte1, byte2, byte3, 0 >>

\* ICSP_enterProgMode returns (echo == 0x53).
ICSP_enterProgMode_result(e) == e = 83

\* (variant) the composition without the shift of the first reply
ICSP_readSignature_NoShift(reply1, reply2) == BitOr(reply1, reply2)

\* ICSP_readSignature composes the two replies.
ICSP_readSignature(reply1, reply2) == BitOr(U16(reply1 * 256), reply2)

ICSP_readSignature_instrs ==
  << ICSP_readInstr(48, 0, 1), ICSP_readInstr(48, 0, 2) >>

\* The two reads are the operands of one | : C leaves the order in which
\* they are evaluated, and so sent, to the compiler.
ICSP_readSignature_orders ==
  {ICSP_readSignature_instrs,
   << ICSP_readInstr(48, 0, 2), ICSP_readInstr(48, 0, 1) >>}

ICSP_readCalib_instrs == << ICSP_readInstr(56, 0, 0) >>

ICSP_eraseChip_instrs == << ICSP_sendInstr(172, 128, 0, 0) >>

\* (variant) the fuse writes with the high fuse byte first
ICSP_writeFuses_instrs_HighFirst(T) ==
  << ICSP_sendInstr(172, 168, 0, T.HFUSE),
     ICSP_sendInstr(172, 160, 0, T.LFUSE),
     ICSP_sendInstr(172, 164, 0, T.EFUSE) >>

\* ICSP_writeFuses(): low, high, extended
ICSP_writeFuses_instrs(T) ==
  << ICSP_sendInstr(172, 160, 0, T.LFUSE),
     ICSP_sendInstr(172, 168, 0, T.HFUSE),
     ICSP_sendInstr(172, 164, 0, T.EFUSE) >>

\* ICSP_writeEEPROM(uint8_t addr, uint8_t data)
ICSP_writeEEPROM_instrs(addr, data) ==
  << ICSP_sendInstr(192, U8(U8(addr) \div 256), U8(addr), U8(data)) >>

\* pgm_read_byte(p) with p the offset into the image of descriptor T
PgmRead(T, p, padb) == IF p < Len(T.PROG) THEN T.PROG[p + 1] ELSE padb

\* (variant) the word count taken to be the byte count
Flash_Init_ByteCount(T) ==
  [addr |-> 0, pagesize |-> T.PSIZE, length |-> T.PROG_LENGTH,
   p |-> 0, out |-> << >>]

\* ICSP_writeFlash: the locals after their initialisation
Flash_Init(T) ==
  [addr |-> 0, pagesize |-> T.PSIZE, length |-> (T.PROG_LENGTH + 1) \div 2,
   p |-> 0, out |-> << >>]

\* (variant) the do-while body sending the two bytes of a word in the
\* opposite order
Flash_Body_Swapped(s, T, padb) ==
  LET lo == ICSP_sendInstr(64, U8(s.addr \div 256), U8(s.addr), PgmRead(T, s.p + 1, padb))
      hi == ICSP_sendInstr(72, U8(s.addr \div 256), U8(s.addr), PgmRead(T, s.p, padb))
      a == U16(s.addr + 1)
      page == U16(a - s.pagesize)
      commit == IF BitAnd(a, s.pagesize - 1) = 0
                THEN << ICSP_sendInstr(76, U8(page \div 256), U8(page), 0) >>
                ELSE << >>
  IN [s EXCEPT !.addr = a, !.p = s.p + 2, !.length = U16(s.length - 1),
               !.out = s.out \o << lo, hi >> \o commit]

\* ICSP_writeFlash: one pass of the do-while body, --length included
Flash_Body(s, T, padb) ==
  LET lo == ICSP_sendInstr(64, U8(s.addr \div 256), U8(s.addr), PgmRead(T, s.p, padb))
      hi == ICSP_sendInstr(72, U8(s.addr \div 256), U8(s.addr), PgmRead(T, s.p + 1, padb))
      a == U16(s.addr + 1)
      page == U16(a - s.pagesize)
      commit == IF BitAnd(a, s.pagesize - 1) = 0
                THEN << ICSP_sendInstr(76, U8(page \div 256), U8(page), 0) >>
                ELSE << >>
  IN [s EXCEPT !.addr = a, !.p = s.p + 2, !.length = U16(s.length - 1),
               !.out = s.out \o << lo, hi >> \o commit]

\* (variant) ICSP_writeFlash without the commit after the loop
Flash_Tail_Skip(s) == s

\* ICSP_writeFlash: the commit of a partly filled last page
Flash_Tail(s) ==
  IF BitAnd(s.addr, s.pagesize - 1) # 0
  THEN [s EXCEPT !.out = s.out \o
          << ICSP_sendInstr(76, U8(s.addr \div 256), U8(s.addr), 0) >>]
  ELSE s

RECURSIVE Flash_Loop(_, _, _)
\* ICSP_writeFlash: do { ... } while(--length)
\* (n is bound through a one-element set so that each pass is computed once)
Flash_Loop(s, T, padb) ==
  CHOOSE r \in {IF n.length # 0 THEN Flash_Loop(n, T, padb) ELSE n :
                  n \in {Flash_Body(s, T, padb)}} : TRUE

\* ICSP_writeFlash as a whole: the instructions it sends
ICSP_writeFlash_instrs(T, padb) ==
  CHOOSE r \in {Flash_Tail(s).out :
                  s \in {Flash_Loop(Flash_Init(T), T, padb)}} : TRUE

(***************************************************************************)
(* Frequency measurement and main() helpers                                *)
(***************************************************************************)

\* FRQ_measure: freq = (uint16_t)(FRQ_highByte << 8) | TCNT0; freq >>= 1
FRQ_compose(high, low) == BitOr(U16(high * 256), low) \div 2

\* Glyph number of the blank (#define SPACE 22); glyphs 0..15 are the hex
\* digits, glyph 19 is the x.
SPACE == 22

\* OLED BCD conversion array
DIVIDER == << 10000, 1000, 100, 10, 1 >>

\* OLED_printDec: five glyphs, a digit found by repeated subtraction of its
\* divider; blanks until the first divider that fits, the last digit always.
OLED_printDec(value) ==
  [digit \in 1 .. 5 |->
     IF value >= DIVIDER[digit] \/ digit = 5
     THEN (value % (IF digit = 1 THEN 65536 ELSE DIVIDER[digit - 1]))
            \div DIVIDER[digit]
     ELSE SPACE]

\* OLED_printHex: "0x", the high nibble, the low nibble.
OLED_printHex(value) == << 0, 19, value \div 16, value % 16 >>

\* main, lines 828-831: row 2 gets the trial value and its frequency (the
\* supply voltage printed in front of them is not followed).
Display(value, freq) ==
  [hex |-> OLED_printHex(value), dec |-> OLED_printDec(freq)]

\* Row 2 after OLED_clearScreen.
Blank == [hex |-> << >>, dec |-> << >>]

\* diff(a, b)
diff(a, b) == IF a > b THEN a - b ELSE b - a

RECURSIVE Scan_LowByte(_, _)
\* (variant) the table scan comparing the low bytes only
Scan_LowByte(sig, t) ==
  IF t < TGT_LENGTH
  THEN IF sig % 256 = TGTs[t + 1].SIG % 256 THEN t ELSE Scan_LowByte(sig, t + 1)
  ELSE t

RECURSIVE Scan(_, _)
\* for(target=0; target<TGT_LENGTH; target++) if(signature == SIG) break;
Scan(sig, t) ==
  IF t < TGT_LENGTH
  THEN IF sig = TGTs[t + 1].SIG THEN t ELSE Scan(sig, t + 1)
  ELSE t

\* (variant) the loop exit test with > for >=
LeaveLoop_Strict(freq, expected, best) == diff(freq, expected) > best

\* main, line "if(diff(frequency, TGT.FREQ) >= difference) break;"
LeaveLoop(freq, expected, best) == diff(freq, expected) >= best

\* main, lines "if(frequency > TGT.FREQ) calib--; else calib++;" on uint8_t
NextCalib(c, freq, expected) == IF freq > expected THEN U8(c - 1) ELSE U8(c + 1)

\* The seed of the best deviation, "uint16_t difference = 65535;"
DifferenceSeed == 65535

(***************************************************************************)
(* Initial state: main() after its setup, blocked in the first BUTTON_wait *)
(***************************************************************************)

Init ==
  /\ pc = "idle"
  /\ DDRA = {}
  /\ PORTA = {"BUTTON"}
  /\ echo = 0
  /\ sent = << >>
  /\ lastOp = "none"
  /\ touched = {}
  /\ TGT = TGT_ZERO
  /\ target = 0
  /\ signature = 0
  /\ rsig = << 0, 0 >>
  /\ calib = 0
  /\ frequency = 0
  /\ lastcalib = 0
  /\ difference = 0
  /\ FRQ_highByte = 0
  /\ FRQ_busy = 0
  /\ TCNT0 = 0
  /\ TCCR0B = 0
  /\ TCCR1B = 0
  /\ tov0 = FALSE
  /\ isr = "none"
  /\ pulses = 0
  /\ oled = "START"
  /\ shown = Blank
  /\ meas = << >>
  /\ eeLog = << >>
  /\ prior = "none"
  /\ wf = Flash_Init(TGT_ZERO)
  /\ pad = 255
  /\ sb = SendByte_Idle

\* The target memory an instruction writes to, by its first two bytes:
\* 0xAC 0x80 erases flash and EEPROM, 0xAC 0xA0/0xA8/0xA4 write a fuse byte,
\* 0x40/0x48 load and 0x4C commits a flash page, 0xC0 writes an EEPROM byte;
\* 0x30 and 0x38 only read.
MemoryOf(i) ==
  IF i[1] = 172 /\ i[2] = 128 THEN {"flash", "eeprom"}
  ELSE IF i[1] = 172 THEN {"fuse"}
  ELSE IF i[1] \in {64, 72, 76} THEN {"flash"}
  ELSE IF i[1] = 192 THEN {"eeprom"}
  ELSE {}

(***************************************************************************)
(* Steps shared by the three call sites of the ICSP session functions      *)
(***************************************************************************)

\* ICSP_enterProgMode(); main discards the value it returns.
EnterProgMode(next) ==
  /\ \E e \in EchoBytes : echo' = e
  /\ DDRA' = ICSP_init_DDRA(DDRA)
  /\ PORTA' = PortAfterSend(ICSP_init_PORTA(PORTA), 0)
  /\ sent' = << >>
  /\ lastOp' = "enter"
  /\ UNCHANGED touched
  /\ pc' = next

\* ICSP_exitProgMode()
ExitProgMode(next) ==
  /\ DDRA' = ICSP_release_DDRA(DDRA)
  /\ PORTA' = ICSP_release_PORTA(PORTA)
  /\ lastOp' = "exit"
  /\ UNCHANGED << echo, sent, touched >>
  /\ pc' = next

\* Any ICSP_sendInstr / ICSP_readInstr sequence: the bytes go out on the
\* lines whatever the session state is.
SendInstrs(instrs, next) ==
  /\ sent' = sent \o instrs
  /\ PORTA' = PortAfterSend(PORTA, instrs[Len(instrs)][4])
  /\ lastOp' = "instr"
  /\ touched' = touched \cup UNION {MemoryOf(instrs[k]) : k \in 1 .. Len(instrs)}
  /\ UNCHANGED << DDRA, echo >>
  /\ pc' = next

\* ICSP_writeEEPROM(0, data) from main
WriteEEPROM(data, next) ==
  /\ SendInstrs(ICSP_writeEEPROM_instrs(0, data), next)
  /\ eeLog' = eeLog \o ICSP_writeEEPROM_instrs(0, data)

(***************************************************************************)
(* main(): identification                                                  *)
(***************************************************************************)

\* BUTTON_wait() of the start screen returns: a run begins.
Trigger ==
  /\ pc = "idle"
  /\ pc' = "enter"
  /\ meas' = << >>
  /\ eeLog' = << >>
  /\ touched' = {}
  /\ UNCHANGED << TGT, ctlVars, frqVars, DDRA, PORTA, echo, sent, lastOp,
                  oled, shown, prior, flashVars >>

IdentifyEnter ==
  /\ pc = "enter"
  /\ EnterProgMode("readsig")
  /\ UNCHANGED << TGT, ctlVars, frqVars, oled, shown, histVars, flashVars >>

\* signature = ICSP_readSignature(); with the two replies drawn from R
ReadSignatureFrom(R) ==
  /\ pc = "readsig"
  /\ \E r \in R :
       /\ signature' = ICSP_readSignature(r[1], r[2])
       /\ rsig' = r
  /\ \E instrs \in ICSP_readSignature_orders : SendInstrs(instrs, "lookup")
  /\ UNCHANGED << TGT, target, calib, frequency, lastcalib, difference,
                  frqVars, oled, shown, histVars, flashVars >>

ReadSignature == ReadSignatureFrom(SigReplies)

Lookup ==
  /\ pc = "lookup"
  /\ target' = Scan(signature, 0)
  /\ pc' = IF target' = TGT_LENGTH THEN "nomatch" ELSE "copy"
  /\ UNCHANGED << TGT, signature, rsig, calib, frequency, lastcalib, difference,
                  frqVars, linkVars, oled, shown, histVars, flashVars >>

\* (variant) negative detection that forgets ICSP_exitProgMode()
NoMatch_NoExit ==
  /\ pc = "nomatch"
  /\ pc' = "errwait"
  /\ oled' = "ERROR"
  /\ UNCHANGED shown
  /\ prior' = "failed"
  /\ UNCHANGED << TGT, ctlVars, frqVars, linkVars, meas, eeLog, flashVars >>

\* Negative detection: exit, error banner, then BUTTON_wait.
NoMatch ==
  /\ pc = "nomatch"
  /\ ExitProgMode("errwait")
  /\ oled' = "ERROR"
  /\ UNCHANGED shown
  /\ prior' = "failed"
  /\ UNCHANGED << TGT, ctlVars, frqVars, meas, eeLog, flashVars >>

\* BUTTON_wait() after the error banner returns; continue; start screen.
ErrorAck ==
  /\ pc = "errwait"
  /\ pc' = "idle"
  /\ oled' = "START"
  /\ UNCHANGED shown
  /\ UNCHANGED << TGT, ctlVars, frqVars, linkVars, histVars, flashVars >>

\* (variant) a match that leaves the runtime copy as it is
CopyTarget_Skip ==
  /\ pc = "copy"
  /\ oled' = "CALIBRATING"
  /\ UNCHANGED shown
  /\ pc' = "readcalib"
  /\ UNCHANGED << TGT, ctlVars, frqVars, linkVars, histVars, flashVars >>

\* memcpy_P(&TGT, &TGTs[target], sizeof TGT) and the banner
CopyTarget ==
  /\ pc = "copy"
  /\ TGT' = TGTs[target + 1]
  /\ oled' = "CALIBRATING"
  /\ UNCHANGED shown
  /\ pc' = "readcalib"
  /\ UNCHANGED << ctlVars, frqVars, linkVars, histVars, flashVars >>

(***************************************************************************)
(* main(): programming                                                     *)
(***************************************************************************)

ReadCalib ==
  /\ pc = "readcalib"
  /\ \E r \in CalibBytes : calib' = r
  /\ SendInstrs(ICSP_readCalib_instrs, "erase")
  /\ UNCHANGED << TGT, target, signature, rsig, frequency, lastcalib, difference,
                  frqVars, oled, shown, histVars, flashVars >>

\* (variant) the programming step without the chip erase
EraseChip_Skip ==
  /\ pc = "erase"
  /\ pc' = "fuses"
  /\ UNCHANGED << TGT, ctlVars, frqVars, linkVars, oled, shown, histVars, flashVars >>

EraseChip ==
  /\ pc = "erase"
  /\ SendInstrs(ICSP_eraseChip_instrs, "fuses")
  /\ UNCHANGED << TGT, ctlVars, frqVars, oled, shown, histVars, flashVars >>

\* (variant) the programming step without the fuse writes
WriteFuses_Skip ==
  /\ pc = "fuses"
  /\ pc' = "flash"
  /\ UNCHANGED << TGT, ctlVars, frqVars, linkVars, oled, shown, histVars, flashVars >>

WriteFuses ==
  /\ pc = "fuses"
  /\ SendInstrs(ICSP_writeFuses_instrs(TGT), "flash")
  /\ UNCHANGED << TGT, ctlVars, frqVars, oled, shown, histVars, flashVars >>

WriteFlash ==
  /\ pc = "flash"
  /\ \E instrs \in {ICSP_writeFlash_instrs(TGT, pad)} :
       SendInstrs(instrs, "eeprom")
  /\ UNCHANGED << TGT, ctlVars, frqVars, oled, shown, histVars, flashVars >>

WriteCalib ==
  /\ pc = "eeprom"
  /\ WriteEEPROM(calib, "exit")
  /\ UNCHANGED << TGT, ctlVars, frqVars, oled, shown, meas, prior, flashVars >>

\* (variant) the programming step not closing its session
ProgramExit_NoRelease ==
  /\ pc = "exit"
  /\ pc' = "init"
  /\ UNCHANGED << TGT, ctlVars, frqVars, linkVars, oled, shown, histVars, flashVars >>

ProgramExit ==
  /\ pc = "exit"
  /\ ExitProgMode("init")
  /\ UNCHANGED << TGT, ctlVars, frqVars, oled, shown, histVars, flashVars >>

(***************************************************************************)
(* main(): calibration loop                                                *)
(***************************************************************************)

\* (variant) the loop variables without the seed of difference
InitCalibVars_NoSeed ==
  /\ pc = "init"
  /\ lastcalib' = calib
  /\ pc' = "measure"
  /\ UNCHANGED << TGT, target, signature, rsig, calib, frequency, difference,
                  frqVars, linkVars, oled, shown, histVars, flashVars >>

\* uint8_t lastcalib = calib; uint16_t difference = 65535;
InitCalibVars ==
  /\ pc = "init"
  /\ lastcalib' = calib
  /\ difference' = DifferenceSeed
  /\ pc' = "measure"
  /\ UNCHANGED << TGT, target, signature, rsig, calib, frequency, frqVars,
                  linkVars, oled, shown, histVars, flashVars >>

\* FRQ_measure up to its busy-wait: flag set, counters cleared and started.
MeasureStart ==
  /\ pc = "measure"
  /\ FRQ_busy' = 1
  /\ FRQ_highByte' = 0
  /\ TCNT0' = 0
  /\ TCCR1B' = 2
  /\ TCCR0B' = 6
  /\ pulses' = 0
  /\ UNCHANGED << tov0, isr >>
  /\ pc' = "sampling"
  /\ UNCHANGED << TGT, ctlVars, linkVars, oled, shown, histVars, flashVars >>

\* (variant) a gate routine that stops the timers and leaves the flag set
GateWindow_NoClear ==
  /\ pc = "sampling"
  /\ FRQ_busy = 1
  /\ TCCR0B' = 0
  /\ TCCR1B' = 0
  /\ UNCHANGED << pc, FRQ_highByte, FRQ_busy, TCNT0, tov0, isr, pulses, TGT,
                  ctlVars, linkVars, oled, shown, histVars, flashVars >>

\* The gate window: n pulses arrive (each timer0 overflow runs TIM0_OVF_vect,
\* FRQ_highByte++ on uint8_t), then TIM1_COMPA_vect stops both timers and
\* clears the flag.
GateWindow ==
  /\ pc = "sampling"
  /\ FRQ_busy = 1
  /\ \E n \in PulseCounts(TGT.FREQ) :
       /\ FRQ_highByte' = U8(FRQ_highByte + n \div 256)
       /\ TCNT0' = U8(TCNT0 + n)
       /\ pulses' = n
  /\ UNCHANGED << tov0, isr >>
  /\ TCCR0B' = 0
  /\ TCCR1B' = 0
  /\ FRQ_busy' = 0
  /\ UNCHANGED << pc, TGT, ctlVars, linkVars, oled, shown, histVars, flashVars >>

\* FRQ_measure after while(FRQ_busy): compose, halve, return to main.
MeasureDone ==
  /\ pc = "sampling"
  /\ FRQ_busy = 0
  /\ frequency' = FRQ_compose(FRQ_highByte, TCNT0)
  /\ meas' = Append(meas, << calib, frequency' >>)
  /\ pc' = "compare"
  /\ UNCHANGED << TGT, target, signature, rsig, calib, lastcalib, difference,
                  frqVars, linkVars, oled, shown, eeLog, prior, flashVars >>

\* (variant) the loop printing the trial before it tests it
Compare_Shows ==
  /\ pc = "compare"
  /\ shown' = Display(calib, frequency)
  /\ pc' = IF LeaveLoop(frequency, TGT.FREQ, difference)
           THEN "commit_enter" ELSE "record"
  /\ UNCHANGED << TGT, ctlVars, frqVars, linkVars, oled, histVars, flashVars >>

\* (variant) the loop going on when the deviation equals the best one
Compare_TieGoesOn ==
  /\ pc = "compare"
  /\ pc' = IF diff(frequency, TGT.FREQ) > difference
           THEN "commit_enter" ELSE "record"
  /\ UNCHANGED << TGT, ctlVars, frqVars, linkVars, oled, shown, histVars, flashVars >>

\* if(diff(frequency, TGT.FREQ) >= difference) break;
Compare ==
  /\ pc = "compare"
  /\ pc' = IF LeaveLoop(frequency, TGT.FREQ, difference)
           THEN "commit_enter" ELSE "record"
  /\ UNCHANGED << TGT, ctlVars, frqVars, linkVars, oled, shown, histVars, flashVars >>

\* (variant) the best deviation recorded without the best value
Record_Stale ==
  /\ pc = "record"
  /\ shown' = Display(calib, frequency)
  /\ difference' = diff(frequency, TGT.FREQ)
  /\ pc' = IF difference' = 0 THEN "commit_enter" ELSE "adjust"
  /\ UNCHANGED << TGT, target, signature, rsig, calib, frequency, lastcalib,
                  frqVars, linkVars, oled, histVars, flashVars >>

\* (variant) the record step without the break on an exact match
Record_NoBreak ==
  /\ pc = "record"
  /\ shown' = Display(calib, frequency)
  /\ lastcalib' = calib
  /\ difference' = diff(frequency, TGT.FREQ)
  /\ pc' = "adjust"
  /\ UNCHANGED << TGT, target, signature, rsig, calib, frequency, frqVars,
                  linkVars, oled, histVars, flashVars >>

\* lastcalib = calib; difference = diff(...); if(difference == 0) break;
Record ==
  /\ pc = "record"
  /\ shown' = Display(calib, frequency)
  /\ lastcalib' = calib
  /\ difference' = diff(frequency, TGT.FREQ)
  /\ pc' = IF difference' = 0 THEN "commit_enter" ELSE "adjust"
  /\ UNCHANGED << TGT, target, signature, rsig, calib, frequency, frqVars,
                  linkVars, oled, histVars, flashVars >>

\* if(frequency > TGT.FREQ) calib--; else calib++;
Adjust ==
  /\ pc = "adjust"
  /\ calib' = NextCalib(calib, frequency, TGT.FREQ)
  /\ pc' = "loop_enter"
  /\ UNCHANGED << TGT, target, signature, rsig, frequency, lastcalib, difference,
                  frqVars, linkVars, oled, shown, histVars, flashVars >>

LoopEnter ==
  /\ pc = "loop_enter"
  /\ EnterProgMode("loop_write")
  /\ UNCHANGED << TGT, ctlVars, frqVars, oled, shown, histVars, flashVars >>

\* (variant) the loop writing the best value instead of the next trial
LoopWrite_Best ==
  /\ pc = "loop_write"
  /\ WriteEEPROM(lastcalib, "loop_exit")
  /\ UNCHANGED << TGT, ctlVars, frqVars, oled, shown, meas, prior, flashVars >>

\* ICSP_writeEEPROM(0, calib) of the loop
LoopWrite ==
  /\ pc = "loop_write"
  /\ WriteEEPROM(calib, "loop_exit")
  /\ UNCHANGED << TGT, ctlVars, frqVars, oled, shown, meas, prior, flashVars >>

\* (variant) the loop measuring with the session still open
LoopExit_NoRelease ==
  /\ pc = "loop_exit"
  /\ pc' = "measure"
  /\ UNCHANGED << TGT, ctlVars, frqVars, linkVars, oled, shown, histVars, flashVars >>

LoopExit ==
  /\ pc = "loop_exit"
  /\ ExitProgMode("measure")
  /\ UNCHANGED << TGT, ctlVars, frqVars, oled, shown, histVars, flashVars >>

(***************************************************************************)
(* main(): commit                                                          *)
(***************************************************************************)

CommitEnter ==
  /\ pc = "commit_enter"
  /\ EnterProgMode("commit_write")
  /\ UNCHANGED << TGT, ctlVars, frqVars, oled, shown, histVars, flashVars >>

\* (variant) the commit writing the trial value instead of the best one
CommitWrite_Trial ==
  /\ pc = "commit_write"
  /\ WriteEEPROM(calib, "commit_exit")
  /\ UNCHANGED << TGT, ctlVars, frqVars, oled, shown, meas, prior, flashVars >>

CommitWrite ==
  /\ pc = "commit_write"
  /\ WriteEEPROM(lastcalib, "commit_exit")
  /\ UNCHANGED << TGT, ctlVars, frqVars, oled, shown, meas, prior, flashVars >>

\* ICSP_exitProgMode(), the completion banner, then BUTTON_wait.
CommitExit ==
  /\ pc = "commit_exit"
  /\ ExitProgMode("donewait")
  /\ oled' = "COMPLETE"
  /\ UNCHANGED shown
  /\ prior' = "completed"
  /\ UNCHANGED << TGT, ctlVars, frqVars, meas, eeLog, flashVars >>

\* BUTTON_wait() after the completion banner returns; start screen.
DoneAck ==
  /\ pc = "donewait"
  /\ pc' = "idle"
  /\ oled' = "START"
  /\ UNCHANGED shown
  /\ UNCHANGED << TGT, ctlVars, frqVars, linkVars, histVars, flashVars >>

\* The firmware's own steps (everything but the button).
Step ==
  \/ IdentifyEnter \/ ReadSignature \/ Lookup \/ NoMatch \/ CopyTarget
  \/ ReadCalib \/ EraseChip \/ WriteFuses \/ WriteFlash \/ WriteCalib
  \/ ProgramExit \/ InitCalibVars \/ MeasureStart \/ GateWindow
  \/ MeasureDone \/ Compare \/ Record \/ Adjust \/ LoopEnter \/ LoopWrite
  \/ LoopExit \/ CommitEnter \/ CommitWrite \/ CommitExit

\* The button: the user starts a run or acknowledges a banner.
Button == Trigger \/ ErrorAck \/ DoneAck

Next == Step \/ Button

Spec == Init /\ [][Next]_vars

\* The firmware keeps executing, and the gate timer fires.
FairSpec == Spec /\ WF_vars(Step)

(***************************************************************************)
(* ICSP_writeFlash, one loop pass at a time                                *)
(***************************************************************************)

\* Page sizes of the synthetic descriptors (words, powers of two).
PageSizes == {2, 4, 8}

\* Descriptors ICSP_writeFlash is run on: the table's own, and synthetic
\* ones of every image length up to MaxProgLen for each page size.
FlashTargets ==
  {TGTs[i] : i \in 1 .. TGT_LENGTH} \cup
  {[SIG |-> 0, LFUSE |-> 98, HFUSE |-> 223, EFUSE |-> 255, PSIZE |-> ps,
    PROG_LENGTH |-> n, PROG |-> SubSeq(PROG_T84, 1, n), FREQ |-> 8000,
    NAME |-> "SYNTHETIC "] : n \in 1 .. MaxProgLen, ps \in PageSizes}

InitFlash ==
  /\ pc = "wf_begin"
  /\ TGT \in FlashTargets
  /\ pad \in PadBytes
  /\ sb = SendByte_Idle
  /\ wf = Flash_Init(TGT_ZERO)
  /\ DDRA = IcspPins
  /\ PORTA = {"BUTTON"}
  /\ echo = 83
  /\ sent = << >>
  /\ lastOp = "enter"
  /\ touched = {}
  /\ target = 0
  /\ signature = 0
  /\ rsig = << 0, 0 >>
  /\ calib = 0
  /\ frequency = 0
  /\ lastcalib = 0
  /\ difference = 0
  /\ FRQ_highByte = 0
  /\ FRQ_busy = 0
  /\ TCNT0 = 0
  /\ TCCR0B = 0
  /\ TCCR1B = 0
  /\ tov0 = FALSE
  /\ isr = "none"
  /\ pulses = 0
  /\ oled = "CALIBRATING"
  /\ shown = Blank
  /\ meas = << >>
  /\ eeLog = << >>
  /\ prior = "none"

flashFrame ==
  << linkVars, TGT, ctlVars, frqVars, oled, shown, histVars, pad, sb >>

\* uint16_t addr = 0; pagesize = TGT.PSIZE; length = ...; p = TGT.PROG;
FlashBegin ==
  /\ pc = "wf_begin"
  /\ wf' = Flash_Init(TGT)
  /\ pc' = "wf_loop"
  /\ UNCHANGED flashFrame

\* one pass of do { ... } while(--length);
FlashWord ==
  /\ pc = "wf_loop"
  /\ wf' = Flash_Body(wf, TGT, pad)
  /\ pc' = IF wf'.length # 0 THEN "wf_loop" ELSE "wf_tail"
  /\ UNCHANGED flashFrame

\* if(addr & (pagesize - 1)) { commit }; return
FlashTail ==
  /\ pc = "wf_tail"
  /\ wf' = Flash_Tail(wf)
  /\ pc' = "wf_done"
  /\ UNCHANGED flashFrame

NextFlash == FlashBegin \/ FlashWord \/ FlashTail

SpecFlash == InitFlash /\ [][NextFlash]_vars

(***************************************************************************)
(* SpecSig: ICSP_readSignature on every pair of reply bytes                *)
(***************************************************************************)

\* main() has opened the session of the identification.
InitSig ==
  /\ pc = "readsig"
  /\ DDRA = IcspPins
  /\ PORTA = {"BUTTON"}
  /\ echo = 83
  /\ sent = << >>
  /\ lastOp = "enter"
  /\ touched = {}
  /\ TGT = TGT_ZERO
  /\ target = 0
  /\ signature = 0
  /\ rsig = << 0, 0 >>
  /\ calib = 0
  /\ frequency = 0
  /\ lastcalib = 0
  /\ difference = 0
  /\ FRQ_highByte = 0
  /\ FRQ_busy = 0
  /\ TCNT0 = 0
  /\ TCCR0B = 0
  /\ TCCR1B = 0
  /\ tov0 = FALSE
  /\ isr = "none"
  /\ pulses = 0
  /\ oled = "START"
  /\ shown = Blank
  /\ meas = << >>
  /\ eeLog = << >>
  /\ prior = "none"
  /\ wf = Flash_Init(TGT_ZERO)
  /\ pad = 255
  /\ sb = SendByte_Idle

ReadSignatureAll == ReadSignatureFrom((0 .. 255) \X (0 .. 255))

SpecSig == InitSig /\ [][ReadSignatureAll]_vars

(***************************************************************************)
(* SpecByte: ICSP_sendByte, one loop pass at a time, on every byte         *)
(***************************************************************************)

\* Levels of the MISO line at a sample.
MisoLevels == {0, 1}

\* A session is open and ICSP_sendByte(b) has been entered, for any b.
InitByte ==
  /\ pc = "sb_loop"
  /\ sb \in {SendByte_Init(b) : b \in 0 .. 255}
  /\ DDRA = IcspPins
  /\ PORTA = {"BUTTON"}
  /\ echo = 0
  /\ sent = << >>
  /\ lastOp = "enter"
  /\ touched = {}
  /\ TGT = TGT_ZERO
  /\ target = 0
  /\ signature = 0
  /\ rsig = << 0, 0 >>
  /\ calib = 0
  /\ frequency = 0
  /\ lastcalib = 0
  /\ difference = 0
  /\ FRQ_highByte = 0
  /\ FRQ_busy = 0
  /\ TCNT0 = 0
  /\ TCCR0B = 0
  /\ TCCR1B = 0
  /\ tov0 = FALSE
  /\ isr = "none"
  /\ pulses = 0
  /\ oled = "START"
  /\ shown = Blank
  /\ meas = << >>
  /\ eeLog = << >>
  /\ prior = "none"
  /\ wf = Flash_Init(TGT_ZERO)
  /\ pad = 255

byteFrame ==
  << DDRA, echo, sent, lastOp, touched, TGT, ctlVars, frqVars, oled, shown,
     histVars, wf, pad >>

\* One pass of for(uint8_t i=8; i; i--) { ... }: MOSI is left at the bit put
\* out, SCK low.
SendBit ==
  /\ pc = "sb_loop"
  /\ \E level \in MisoLevels : sb' = SendByte_Pass(sb, level)
  /\ PORTA' = (PORTA \ {"SCK", "MOSI"}) \cup
                (IF sb'.mosi[Len(sb'.mosi)] = 1 THEN {"MOSI"} ELSE {})
  /\ pc' = IF sb'.i # 0 THEN "sb_loop" ELSE "sb_return"
  /\ UNCHANGED byteFrame

\* return byte; (the caller's echo stands for the value received)
SendByteReturn ==
  /\ pc = "sb_return"
  /\ echo' = sb.byte
  /\ pc' = "sb_done"
  /\ UNCHANGED << DDRA, PORTA, sent, lastOp, touched, TGT, ctlVars, frqVars,
                  oled, shown, histVars, flashVars >>

NextByte == SendBit \/ SendByteReturn

SpecByte == InitByte /\ [][NextByte]_vars

(***************************************************************************)
(* SpecLookup: the table scan of main() on every 16-bit signature          *)
(***************************************************************************)

\* main() has read a signature and is about to scan the table.
InitLookup ==
  /\ pc = "lookup"
  /\ signature \in 0 .. 65535
  /\ rsig = << signature \div 256, signature % 256 >>
  /\ DDRA = IcspPins
  /\ PORTA = {"BUTTON"}
  /\ echo = 83
  /\ sent = ICSP_readSignature_instrs
  /\ lastOp = "instr"
  /\ touched = {}
  /\ TGT = TGT_ZERO
  /\ target = 0
  /\ calib = 0
  /\ frequency = 0
  /\ lastcalib = 0
  /\ difference = 0
  /\ FRQ_highByte = 0
  /\ FRQ_busy = 0
  /\ TCNT0 = 0
  /\ TCCR0B = 0
  /\ TCCR1B = 0
  /\ tov0 = FALSE
  /\ isr = "none"
  /\ pulses = 0
  /\ oled = "START"
  /\ shown = Blank
  /\ meas = << >>
  /\ eeLog = << >>
  /\ prior = "none"
  /\ wf = Flash_Init(TGT_ZERO)
  /\ pad = 255
  /\ sb = SendByte_Idle

SpecLookup == InitLookup /\ [][Lookup]_vars

(***************************************************************************)
(* SpecLink: the ICSP session functions called in any order                *)
(***************************************************************************)

InitLink ==
  /\ pc = "link"
  /\ DDRA = {}
  /\ PORTA = {"BUTTON"}
  /\ echo = 0
  /\ sent = << >>
  /\ lastOp = "none"
  /\ touched = {}
  /\ TGT = TGT_ZERO
  /\ target = 0
  /\ signature = 0
  /\ rsig = << 0, 0 >>
  /\ calib = 0
  /\ frequency = 0
  /\ lastcalib = 0
  /\ difference = 0
  /\ FRQ_highByte = 0
  /\ FRQ_busy = 0
  /\ TCNT0 = 0
  /\ TCCR0B = 0
  /\ TCCR1B = 0
  /\ tov0 = FALSE
  /\ isr = "none"
  /\ pulses = 0
  /\ oled = "START"
  /\ shown = Blank
  /\ meas = << >>
  /\ eeLog = << >>
  /\ prior = "none"
  /\ wf = Flash_Init(TGT_ZERO)
  /\ pad = 255
  /\ sb = SendByte_Idle

linkFrame ==
  << TGT, ctlVars, frqVars, oled, shown, histVars, flashVars >>

\* ICSP_enterProgMode() called in any line state
LinkEnter ==
  /\ pc = "link"
  /\ EnterProgMode("link")
  /\ UNCHANGED linkFrame

\* ICSP_exitProgMode() called in any line state
LinkExit ==
  /\ pc = "link"
  /\ ExitProgMode("link")
  /\ UNCHANGED linkFrame

\* an instruction sent in any line state
LinkSend ==
  /\ pc = "link"
  /\ Len(sent) < MaxSent
  /\ \E instrs \in {ICSP_readCalib_instrs, ICSP_writeEEPROM_instrs(0, 255)} :
       SendInstrs(instrs, "link")
  /\ UNCHANGED linkFrame

NextLink == LinkEnter \/ LinkExit \/ LinkSend

SpecLink == InitLink /\ [][NextLink]_vars

(***************************************************************************)
(* SpecFrq: FRQ_measure statement by statement, interleaved with the pulses *)
(* of the target and the two interrupt service routines                    *)
(***************************************************************************)

\* Pulses arriving between two steps of the controller.
PulseBursts == {1, 200}

InitFrq ==
  /\ pc = "f_call"
  /\ DDRA = {}
  /\ PORTA = {"BUTTON"}
  /\ echo = 0
  /\ sent = << >>
  /\ lastOp = "none"
  /\ touched = {}
  /\ TGT = TGT_ZERO
  /\ target = 0
  /\ signature = 0
  /\ rsig = << 0, 0 >>
  /\ calib = 0
  /\ frequency = 0
  /\ lastcalib = 0
  /\ difference = 0
  /\ FRQ_highByte = 0
  /\ FRQ_busy = 0
  /\ TCNT0 = 0
  /\ TCCR0B = 0
  /\ TCCR1B = 0
  /\ tov0 = FALSE
  /\ isr = "none"
  /\ pulses = 0
  /\ oled = "START"
  /\ shown = Blank
  /\ meas = << >>
  /\ eeLog = << >>
  /\ prior = "none"
  /\ wf = Flash_Init(TGT_ZERO)
  /\ pad = 255
  /\ sb = SendByte_Idle

frqFrame ==
  << linkVars, TGT, target, signature, rsig, calib, lastcalib, difference,
     oled, shown, histVars, flashVars >>

\* The main line runs only outside the interrupt routines, and a pending
\* interrupt is taken before it goes on: the AVR runs at most one more
\* instruction of the main line first, and every statement of FRQ_measure
\* is at least one instruction.
NoIrqPending == ~tov0 /\ isr = "none"

\* FRQ_measure is called; FRQ_busy = 1;
\* (in SpecFrq frequency is the value the call has returned, none yet, and
\* pulses the pulses counted on behalf of the call)
FRQ_SetBusy ==
  /\ pc = "f_call"
  /\ NoIrqPending
  /\ FRQ_busy' = 1
  /\ frequency' = 0
  /\ pulses' = 0
  /\ pc' = "f_clear_high"
  /\ UNCHANGED << FRQ_highByte, TCNT0, TCCR0B, TCCR1B, tov0, isr, frqFrame >>

\* (variant) FRQ_measure leaving the high byte of the earlier call
FRQ_ClearHigh_Skip ==
  /\ pc = "f_clear_high"
  /\ NoIrqPending
  /\ pc' = "f_clear_tcnt"
  /\ UNCHANGED << frequency, frqVars, frqFrame >>

\* FRQ_highByte = 0;
FRQ_ClearHigh ==
  /\ pc = "f_clear_high"
  /\ NoIrqPending
  /\ FRQ_highByte' = 0
  /\ pc' = "f_clear_tcnt"
  /\ UNCHANGED << frequency, FRQ_busy, TCNT0, TCCR0B, TCCR1B, tov0, isr, pulses,
                  frqFrame >>

\* TCNT0 = 0;
FRQ_ClearCounter ==
  /\ pc = "f_clear_tcnt"
  /\ NoIrqPending
  /\ TCNT0' = 0
  /\ pc' = "f_start_gate"
  /\ UNCHANGED << frequency, FRQ_highByte, FRQ_busy, TCCR0B, TCCR1B, tov0, isr,
                  pulses, frqFrame >>

\* TCNT1 = 0; TCCR1B = (1<<CS11);
FRQ_StartGate ==
  /\ pc = "f_start_gate"
  /\ NoIrqPending
  /\ TCCR1B' = 2
  /\ pc' = "f_start_count"
  /\ UNCHANGED << frequency, FRQ_highByte, FRQ_busy, TCNT0, TCCR0B, tov0, isr,
                  pulses, frqFrame >>

\* TCCR0B = (1<<CS02) | (1<<CS01);
FRQ_StartCount ==
  /\ pc = "f_start_count"
  /\ NoIrqPending
  /\ TCCR0B' = 6
  /\ pc' = "f_wait"
  /\ UNCHANGED << frequency, FRQ_highByte, FRQ_busy, TCNT0, TCCR1B, tov0, isr,
                  pulses, frqFrame >>

\* (variant) FRQ_measure going on without waiting for the flag
FRQ_Wait_NoWait ==
  /\ pc = "f_wait"
  /\ NoIrqPending
  /\ pc' = "f_read"
  /\ UNCHANGED << frequency, frqVars, frqFrame >>

\* while(FRQ_busy); left when the flag reads 0
FRQ_Wait ==
  /\ pc = "f_wait"
  /\ NoIrqPending
  /\ FRQ_busy = 0
  /\ pc' = "f_read"
  /\ UNCHANGED << frequency, frqVars, frqFrame >>

\* freq = (uint16_t)(FRQ_highByte << 8) | TCNT0; freq >>= 1; return(freq);
FRQ_Return ==
  /\ pc = "f_read"
  /\ NoIrqPending
  /\ frequency' = FRQ_compose(FRQ_highByte, TCNT0)
  /\ pc' = "f_call"
  /\ UNCHANGED << frqVars, frqFrame >>

\* Timer0 counts k pulses of the target while it is clocked from the pin;
\* passing 255 sets the overflow flag.  The overflow interrupt is served
\* before the counter overflows again.
Pulse ==
  /\ TCCR0B # 0
  /\ \E k \in PulseBursts :
       /\ pulses + k <= MaxPulses
       /\ TCNT0 + k >= 256 => ~tov0
       /\ TCNT0' = U8(TCNT0 + k)
       /\ tov0' = (tov0 \/ TCNT0 + k >= 256)
       /\ pulses' = pulses + k
  /\ UNCHANGED << pc, frequency, FRQ_highByte, FRQ_busy, TCCR0B, TCCR1B,
                  isr, frqFrame >>

\* ISR(TIM0_OVF_vect): FRQ_highByte++; (interrupts do not nest)
TIM0_OVF_vect ==
  /\ tov0
  /\ isr = "none"
  /\ FRQ_highByte' = U8(FRQ_highByte + 1)
  /\ tov0' = FALSE
  /\ UNCHANGED << pc, frequency, FRQ_busy, TCNT0, TCCR0B, TCCR1B, isr,
                  pulses, frqFrame >>

\* (variant) a gate routine that begins with FRQ_busy = 0
TIM1_COMPA_vect_FlagFirst ==
  /\ TCCR1B # 0
  /\ pc = "f_wait"
  /\ isr = "none"
  /\ FRQ_busy' = 0
  /\ isr' = "compa_stop_gate"
  /\ UNCHANGED << pc, frequency, FRQ_highByte, TCNT0, TCCR0B, TCCR1B, tov0,
                  pulses, frqFrame >>

\* ISR(TIM1_COMPA_vect) is entered; TCCR0B = 0;
\* The compare match comes 32 ms after timer1 was started, when the main
\* line has long reached its busy-wait.
TIM1_COMPA_vect ==
  /\ TCCR1B # 0
  /\ pc = "f_wait"
  /\ isr = "none"
  /\ TCCR0B' = 0
  /\ isr' = "compa_stop_gate"
  /\ UNCHANGED << pc, frequency, FRQ_highByte, FRQ_busy, TCNT0, TCCR1B, tov0,
                  pulses, frqFrame >>

\* ISR(TIM1_COMPA_vect): TCCR1B = 0;
TIM1_COMPA_StopGate ==
  /\ isr = "compa_stop_gate"
  /\ TCCR1B' = 0
  /\ isr' = "compa_clear_busy"
  /\ UNCHANGED << pc, frequency, FRQ_highByte, FRQ_busy, TCNT0, TCCR0B, tov0,
                  pulses, frqFrame >>

\* ISR(TIM1_COMPA_vect): FRQ_busy = 0; and the return from the routine
TIM1_COMPA_ClearBusy ==
  /\ isr = "compa_clear_busy"
  /\ FRQ_busy' = 0
  /\ isr' = "none"
  /\ UNCHANGED << pc, frequency, FRQ_highByte, TCNT0, TCCR0B, TCCR1B, tov0,
                  pulses, frqFrame >>

NextFrq ==
  \/ FRQ_SetBusy
  \/ FRQ_ClearHigh
  \/ FRQ_ClearCounter
  \/ FRQ_StartGate
  \/ FRQ_StartCount
  \/ FRQ_Wait
  \/ FRQ_Return
  \/ Pulse
  \/ TIM0_OVF_vect
  \/ TIM1_COMPA_vect
  \/ TIM1_COMPA_StopGate
  \/ TIM1_COMPA_ClearBusy

SpecFrq == InitFrq /\ [][NextFrq]_vars

(***************************************************************************)
(* Properties                                                              *)
(***************************************************************************)

\* The link lines are released: inputs without pull-up.
Released == DDRA \cap IcspPins = {} /\ PORTA \cap IcspPins = {}

\* The lines are driven and the last enable command was not echoed.
EnterFailed == IcspPins \subseteq DDRA /\ ~ICSP_enterProgMode_result(echo)

\* The commit step and what follows it in the run.
Committing == {"commit_enter", "commit_write", "commit_exit", "donewait"}

\* Deviation of the i-th measurement of the run.
Deviation(i) == diff(meas[i][2], TGT.FREQ)

\* An instruction that changes target memory: chip erase or fuse write
\* (0xAC), flash load (0x40, 0x48), page commit (0x4C), EEPROM write (0xC0).
IsWriteInstr(i) == i[1] \in {172, 64, 72, 76, 192}

\* C1: in a run that reaches the commit step, lastcalib is a trial whose
\* measured deviation is the least of all trials measured in the run (and
\* difference is that deviation); and a trial about to be recorded as best
\* never has a larger deviation than the best recorded before it.
C1_BestIsMinimal ==
  /\ pc \in Committing =>
       /\ meas # << >>
       /\ \E i \in 1 .. Len(meas) :
            /\ meas[i][1] = lastcalib
            /\ Deviation(i) = difference
            /\ \A j \in 1 .. Len(meas) : Deviation(i) <= Deviation(j)
  /\ pc = "record" => diff(frequency, TGT.FREQ) <= difference

\* C1 witness: the run is complete after three or more trials, the last of
\* them rejected.
C1_Witness ==
  pc = "donewait" /\ Len(meas) >= 3 /\ calib # lastcalib

\* C2: when the run has completed after a successful identification, the
\* last EEPROM write instruction issued is the write of lastcalib to
\* address zero.
C2_LastWriteIsBest ==
  pc = "donewait" =>
    /\ eeLog # << >>
    /\ eeLog[Len(eeLog)] = << 192, 0, 0, lastcalib >>

\* C2 witness: the run is complete and the last trial written inside the
\* loop was a rejected one.
C2_Witness ==
  /\ pc = "donewait"
  /\ Len(eeLog) >= 3
  /\ eeLog[Len(eeLog) - 1][4] = calib
  /\ calib # lastcalib

\* C3 (as claimed): every instruction sent since the last enter was sent
\* after an enter whose enable echo matched.
C3_NoInstrOutsideEntered ==
  sent # << >> => ICSP_enterProgMode_result(echo)

\* C4 (as claimed): a session attempt whose enter failed is closed with
\* nothing sent, the failure reported and the controller waiting in Idle.
C4_EnterFailureAborts ==
  [][(EnterFailed /\ DDRA' \cap IcspPins = {}) =>
       (sent' = << >> /\ oled' = "ERROR" /\ pc' = "errwait")]_vars

\* The signature read matches no table entry.
NoEntry == \A i \in 1 .. TGT_LENGTH : TGTs[i].SIG # signature

\* C5: a signature that matches no entry leads to the negative-detection
\* branch; there the session is closed and the error reported, and until
\* the next run starts nothing but the two signature reads was sent: no
\* chip erase, fuse write, flash write or EEPROM write.
C5_NoMatchTouchesNothing ==
  /\ (pc \in {"nomatch", "copy"} /\ NoEntry) => pc = "nomatch"
  /\ pc = "errwait" => (NoEntry /\ Released /\ oled = "ERROR")
  /\ (pc \in {"nomatch", "errwait"} \/ (pc = "idle" /\ prior = "failed")) =>
       /\ sent \in ICSP_readSignature_orders
       /\ \A k \in 1 .. Len(sent) : ~IsWriteInstr(sent[k])
       /\ eeLog = << >>

\* C5 witness: the error banner is up after signature 0x900C was read.
C5_Witness == pc = "errwait" /\ signature = 36876

\* C6 (as claimed): the trial byte is clamped, 0 is not followed by 255 on
\* a frequency above the expected one, nor 255 by 0 on one below.
C6_TrialNeverWraps ==
  [][pc = "adjust" =>
       /\ (calib = 0 /\ frequency > TGT.FREQ) => calib' # 255
       /\ (calib = 255 /\ frequency < TGT.FREQ) => calib' # 0]_vars

\* C7: every measurement is followed by the commit step, and every trial
\* that continues the loop strictly lowers the recorded best deviation,
\* which is never negative.
C7_LoopTerminates ==
  /\ (pc = "measure") ~> (pc = "commit_enter")
  /\ [][pc = "record" => (difference' < difference /\ difference' >= 0)]_vars

\* C7 witness: the loop has ended on a target whose frequency falls as the
\* trial byte rises: the trial went down and the frequency up.
C7_Witness ==
  /\ pc = "commit_enter"
  /\ Len(meas) = 2
  /\ meas[2][1] < meas[1][1]
  /\ meas[2][2] > meas[1][2]
  /\ meas[1][2] > TGT.FREQ

\* C8: a run whose first measurement has deviation 0 makes no second
\* measurement and writes no trial inside the loop; its only EEPROM writes
\* are the factory byte when programming and the same byte when
\* committing.
C8_ExactFirstTrial ==
  (meas # << >> /\ Deviation(1) = 0) =>
    /\ Len(meas) = 1
    /\ pc \in {"compare", "record"} \cup Committing \cup {"idle"}
    /\ lastcalib = meas[1][1]
    /\ eeLog[1] = << 192, 0, 0, meas[1][1] >>
    /\ Len(eeLog) <= 2
    /\ pc \in {"commit_exit", "donewait", "idle"} =>
         eeLog = << << 192, 0, 0, lastcalib >>, << 192, 0, 0, lastcalib >> >>

\* C8 witness: a run is complete whose first measurement was exact.
C8_Witness == pc = "donewait" /\ meas # << >> /\ Deviation(1) = 0

\* The first deviation is below the seed for every frequency FRQ_measure
\* can return and every expected frequency of the table.
FirstAlwaysAccepted ==
  \A i \in 1 .. TGT_LENGTH : \A f \in 0 .. 32767 :
    ~LeaveLoop(f, TGTs[i].FREQ, DifferenceSeed)

\* C9: in every run the first measurement finds the seed 65535 and the
\* best value freshly set, and its deviation is accepted as the new best.
C9_FirstAccepted ==
  /\ FirstAlwaysAccepted
  /\ (pc = "compare" /\ Len(meas) = 1) =>
       /\ difference = DifferenceSeed
       /\ lastcalib = calib
       /\ frequency \in 0 .. 32767
       /\ ~LeaveLoop(frequency, TGT.FREQ, difference)

\* C9 witness: the first measurement of a run that follows a completed
\* run, with the largest frequency FRQ_measure can return.
C9_Witness ==
  /\ pc = "compare"
  /\ Len(meas) = 1
  /\ prior = "completed"
  /\ frequency = 32767

\* Words of the image, and the page-commit instructions sent so far.
FlashWords == (TGT.PROG_LENGTH + 1) \div 2

FlashCommits == SelectSeq(wf.out, LAMBDA i : i[1] = 76)

FlashLoads == SelectSeq(wf.out, LAMBDA i : i[1] \in {64, 72})

\* The flash page an instruction addresses.
PageOf(i) == (i[2] * 256 + i[3]) \div TGT.PSIZE

\* C10: ICSP_writeFlash has sent W div P page commits when its loop ends
\* and ceil(W/P) when it returns, one for each page a word was loaded into
\* and for no other page.
C10_PageCommits ==
  /\ pc = "wf_tail" => Len(FlashCommits) = FlashWords \div TGT.PSIZE
  /\ pc = "wf_done" =>
       /\ Len(FlashCommits) = (FlashWords + TGT.PSIZE - 1) \div TGT.PSIZE
       /\ Len(FlashCommits) = FlashWords \div TGT.PSIZE
            + (IF FlashWords % TGT.PSIZE # 0 THEN 1 ELSE 0)
       /\ Len(FlashLoads) = 2 * FlashWords
       /\ {PageOf(FlashCommits[k]) : k \in 1 .. Len(FlashCommits)}
            = {PageOf(FlashLoads[k]) : k \in 1 .. Len(FlashLoads)}
       /\ \A k, l \in 1 .. Len(FlashCommits) :
            PageOf(FlashCommits[k]) = PageOf(FlashCommits[l]) => k = l

\* C10 witness: an image of one page and three words has been written
\* with two page commits.
C10_Witness ==
  /\ pc = "wf_done"
  /\ FlashWords = TGT.PSIZE + 3
  /\ Len(FlashCommits) = 2

\* Byte n of the image as program memory holds it: the image, then whatever
\* lies behind it.
ImageByte(n) == IF n < TGT.PROG_LENGTH THEN TGT.PROG[n + 1] ELSE pad

\* The word address an instruction carries.
AddrOf(i) == i[2] * 256 + i[3]

\* Positions in the instructions sent by ICSP_writeFlash of the page commits
\* issued inside its loop (the commit after the loop, sent when the last
\* page is partly filled, is the last instruction of all).
InLoopCommits ==
  {c \in 1 .. Len(wf.out) :
     /\ wf.out[c][1] = 76
     /\ ~(pc = "wf_done" /\ c = Len(wf.out) /\ FlashWords % TGT.PSIZE # 0)}

\* C11: ICSP_writeFlash loads word k at word address k, image byte 2k as
\* the low byte and then image byte 2k+1 as the high byte, for increasing
\* k; every page commit of the loop carries the address of the first word
\* of the page whose last word was loaded just before it, and every word
\* load of a page comes before the commit of that page.
C11_WordOrder ==
  /\ Len(FlashLoads) % 2 = 0
  /\ pc \in {"wf_tail", "wf_done"} => Len(FlashLoads) = 2 * FlashWords
  /\ \A k \in 0 .. (Len(FlashLoads) \div 2) - 1 :
       /\ FlashLoads[2 * k + 1] = << 64, k \div 256, k % 256, ImageByte(2 * k) >>
       /\ FlashLoads[2 * k + 2] = << 72, k \div 256, k % 256, ImageByte(2 * k + 1) >>
  /\ \A c \in InLoopCommits :
       /\ AddrOf(wf.out[c]) % TGT.PSIZE = 0
       /\ c > 1
       /\ wf.out[c - 1][1] = 72
       /\ AddrOf(wf.out[c - 1]) = AddrOf(wf.out[c]) + TGT.PSIZE - 1
  /\ \A c, j \in 1 .. Len(wf.out) :
       (/\ wf.out[c][1] = 76
        /\ wf.out[j][1] \in {64, 72}
        /\ PageOf(wf.out[j]) = PageOf(wf.out[c])) => j < c

\* C11 witness: an image of two pages and one word has been written; both
\* full pages were committed inside the loop.
C11_Witness ==
  /\ pc = "wf_done"
  /\ FlashWords = 2 * TGT.PSIZE + 1
  /\ Cardinality(InLoopCommits) = 2
  /\ Len(FlashLoads) = 2 * FlashWords

\* C12: the value a call of FRQ_measure returns is floor(N / 2), N being
\* the pulses counted while timer0 ran for that call, for every N from 0
\* to 65535, whatever an earlier call left in the counters; when the main
\* line composes the value, high byte * 256 + timer0 equals N.
C12_HalfOfCount ==
  /\ (pc = "f_read" /\ pulses <= 65535) =>
       FRQ_highByte * 256 + TCNT0 = pulses
  /\ (pc = "f_call" /\ pulses <= 65535) => frequency = pulses \div 2

\* C12 witness: a call that counted 16000 pulses has returned 8000.
C12_Witness ==
  /\ pc = "f_call"
  /\ pulses = 16000
  /\ frequency = 8000
  /\ FRQ_busy = 0

\* C13: the main line of FRQ_measure reads FRQ_highByte and TCNT0 only
\* with FRQ_busy cleared by TIM1_COMPA_vect (both timers stopped, no
\* overflow pending), and TIM0_OVF_vect changes nothing but FRQ_highByte
\* (and the interrupt flag it serves).
C13_ReadAfterGate ==
  /\ [](pc = "f_read" =>
          FRQ_busy = 0 /\ TCCR0B = 0 /\ TCCR1B = 0)
  /\ [][(tov0 /\ ~tov0') =>
          /\ FRQ_highByte' = U8(FRQ_highByte + 1)
          /\ UNCHANGED << pc, frequency, FRQ_busy, TCNT0, TCCR0B, TCCR1B,
                          isr, pulses, frqFrame >>]_vars

\* C13 witness: the main line is about to read the counters of a window in
\* which timer0 overflowed, the last overflow arriving after the gate
\* routine had stopped the timers.
C13_Witness ==
  /\ pc = "f_read"
  /\ FRQ_busy = 0
  /\ FRQ_highByte = 2
  /\ TCNT0 = 0
  /\ pulses = 512

\* The table entries (1-based) whose signature is sig.
EntriesOf(sig) == {i \in 1 .. TGT_LENGTH : TGTs[i].SIG = sig}

\* C14: the signatures of the table are pairwise distinct; the scan of a
\* signature of the table stops at the one entry that holds it, and the
\* scan of any other 16-bit signature ends with target = TGT_LENGTH.
C14_LookupUnique ==
  /\ \A i, j \in 1 .. TGT_LENGTH : TGTs[i].SIG = TGTs[j].SIG => i = j
  /\ pc \in {"nomatch", "copy"} =>
       /\ EntriesOf(signature) # {} =>
            /\ pc = "copy"
            /\ target < TGT_LENGTH
            /\ EntriesOf(signature) = {target + 1}
       /\ EntriesOf(signature) = {} =>
            /\ pc = "nomatch"
            /\ target = TGT_LENGTH

\* C14 witness: the scan of 0x9307, the signature of the last entry, has
\* stopped there.
C14_Witness ==
  /\ pc = "copy"
  /\ signature = 37639
  /\ target = TGT_LENGTH - 1

\* C15: whatever the session state, after ICSP_exitProgMode() the reset,
\* clock and data-out lines are inputs without pull-up, and a second
\* ICSP_exitProgMode() right after the first changes no line.
C15_ExitReleases ==
  /\ [](lastOp = "exit" => Released)
  /\ [][(lastOp = "exit" /\ lastOp' = "exit") =>
          UNCHANGED << DDRA, PORTA >>]_vars

\* C15 witness: ICSP_exitProgMode() has been called on a link whose
\* ICSP_enterProgMode() got no echo.
C15_Witness ==
  /\ pc = "link"
  /\ lastOp = "exit"
  /\ sent = << >>
  /\ ~ICSP_enterProgMode_result(echo)
  /\ Released

\* Positions of main() between an ICSP_enterProgMode() and the
\* ICSP_exitProgMode() that follows it (the exit itself not yet made).
OpenPcs ==
  {"readsig", "lookup", "nomatch", "copy", "readcalib", "erase", "fuses",
   "flash", "eeprom", "exit", "loop_write", "loop_exit", "commit_write",
   "commit_exit"}

\* Positions of main() blocked in BUTTON_wait().
WaitingPcs == {"idle", "errwait", "donewait"}

\* C16: ICSP_enterProgMode() and ICSP_exitProgMode() alternate, starting
\* with an enter: between an enter and the next exit the last ICSP call is
\* the enter or an instruction and the lines are driven; everywhere else,
\* at every call site of enter and in every BUTTON_wait in particular, the
\* last ICSP call (if any) is an exit and the lines are released.
C16_EnterExitAlternate ==
  /\ pc \in OpenPcs =>
       /\ lastOp \in {"enter", "instr"}
       /\ IcspPins \subseteq DDRA
  /\ pc \notin OpenPcs =>
       /\ lastOp \in {"none", "exit"}
       /\ Released

\* C16 witness: the commit has closed the third kind of session of a run
\* and main() waits for the button.
C16_Witness ==
  /\ pc = "donewait"
  /\ lastOp = "exit"
  /\ Released
  /\ Len(meas) >= 3

\* C17 as stated: when a run has completed, no instruction of the run has
\* written to the flash or the fuses of the target.
C17_OnlyEepromChanged ==
  pc = "donewait" => touched \subseteq {"eeprom"}

\* C17 amended: when a run has completed, it has issued a chip erase, the
\* fuse writes and the flash writes besides its EEPROM writes; every EEPROM
\* write of the run addresses byte 0 and the last one carries lastcalib.
C17_RunEffects ==
  pc = "donewait" =>
    /\ touched = {"flash", "fuse", "eeprom"}
    /\ eeLog # << >>
    /\ \A k \in 1 .. Len(eeLog) : eeLog[k][2] = 0 /\ eeLog[k][3] = 0
    /\ eeLog[Len(eeLog)][4] = lastcalib

\* C17 witness: a run over an ATtiny84 has completed after two measurements.
C17_Witness ==
  /\ pc = "donewait"
  /\ TGT.SIG = 37644
  /\ Len(meas) = 2
  /\ "fuse" \in touched

\* C18: from every position of main() outside BUTTON_wait(), main() gets
\* to a BUTTON_wait() with the error or the completion banner shown,
\* provided the firmware keeps running and the gate timer fires.
C18_RunEnds ==
  (pc \notin WaitingPcs) ~> (pc \in {"errwait", "donewait"})

\* C18 witness: a run that took four measurements has reached the
\* completion banner.
C18_Witness ==
  /\ pc = "donewait"
  /\ oled = "COMPLETE"
  /\ Len(meas) = 4

\* The instructions of the identification and programming steps of a run.
ProgrammingSequence ==
  SubSeq(sent, 1, 2) \o ICSP_readCalib_instrs \o ICSP_eraseChip_instrs
    \o ICSP_writeFuses_instrs(TGT) \o ICSP_writeFlash_instrs(TGT, pad)
    \o ICSP_writeEEPROM_instrs(0, calib)

\* C19: when the programming step calls ICSP_exitProgMode(), the session
\* opened for the identification has carried, after the signature read,
\* the calibration byte read, the chip erase, the three fuse writes, the
\* flash image and the EEPROM write of the trial byte to address 0, in
\* this order and nothing else; in every open session no flash or EEPROM
\* write comes before a chip erase.
C19_ProgrammingOrder ==
  /\ pc \in {"exit", "init"} =>
       /\ SubSeq(sent, 1, 2) \in ICSP_readSignature_orders
       /\ sent = ProgrammingSequence
  /\ pc = "init" => lastOp = "exit"
  /\ pc \in {"readcalib", "erase", "fuses", "flash", "eeprom", "exit"} =>
       \A j \in 1 .. Len(sent) :
         sent[j][1] \in {64, 72, 76, 192} =>
           \E i \in 1 .. j - 1 : sent[i] = ICSP_eraseChip_instrs[1]

\* C19 witness: the programming step of an ATtiny84 has closed its session.
C19_Witness ==
  /\ pc = "init"
  /\ lastOp = "exit"
  /\ TGT.SIG = 37644
  /\ sent = ProgrammingSequence

\* C20: from the call of FRQ_measure() to its return the last ICSP call is
\* an ICSP_exitProgMode() and the lines are released.
C20_MeasureReleased ==
  pc \in {"measure", "sampling", "compare"} =>
    /\ lastOp = "exit"
    /\ Released

\* C20 witness: a measurement of the loop, after a trial byte was written
\* and the session closed, is in progress.
C20_Witness ==
  /\ pc = "sampling"
  /\ FRQ_busy = 1
  /\ Len(meas) >= 1
  /\ Len(eeLog) >= 2
  /\ lastOp = "exit"

\* C21 (as claimed): the trial that follows an accepted trial of non-zero
\* deviation is that trial minus one when the measured frequency is above
\* the expected one and that trial plus one otherwise.
C21_StepByOne ==
  [][pc = "adjust" =>
       calib' = IF frequency > TGT.FREQ THEN calib - 1 ELSE calib + 1]_vars

\* C22: a measurement whose deviation is not below the best one recorded
\* ends the loop and leaves lastcalib and difference as they are; in a run
\* that ended this way lastcalib and difference are those of the trial
\* before the last, also when the two deviations are equal.
C22_TieKeepsEarlier ==
  /\ [][(pc = "compare" /\ diff(frequency, TGT.FREQ) >= difference) =>
          /\ pc' = "commit_enter"
          /\ UNCHANGED << lastcalib, difference >>]_vars
  /\ [](LET n == Len(meas)
        IN (pc \in Committing /\ n >= 2 /\ Deviation(n) >= Deviation(n - 1)) =>
             /\ lastcalib = meas[n - 1][1]
             /\ difference = Deviation(n - 1))

\* C22 witness: a run has completed whose last two trials had the same
\* non-zero deviation; the earlier of them is the best value.
C22_Witness ==
  /\ pc = "donewait"
  /\ Len(meas) >= 2
  /\ Deviation(Len(meas)) = Deviation(Len(meas) - 1)
  /\ Deviation(Len(meas)) > 0
  /\ lastcalib = meas[Len(meas) - 1][1]
  /\ calib # lastcalib

\* C23 (as claimed): ICSP_enterProgMode() succeeds exactly when the byte
\* received in the third exchange is 0x53, and only then is the session
\* used as an entered one: an instruction follows an enter only if that
\* enter succeeded.
C23_EnteredOnlyOnEcho ==
  [][(lastOp = "enter" /\ lastOp' = "instr") =>
       ICSP_enterProgMode_result(echo)]_vars

\* C24: TIM1_COMPA_vect stops timer0 and timer1 before it clears FRQ_busy:
\* in every state with FRQ_busy = 0, inside the routine too, both timers
\* are stopped; and once the main line has seen the flag clear, no overflow
\* is pending, no routine is running and the counters hold the count of
\* the window until they are read.
C24_FlagClearTimersStopped ==
  /\ FRQ_busy = 0 => (TCCR0B = 0 /\ TCCR1B = 0)
  /\ isr = "compa_clear_busy" => (TCCR0B = 0 /\ TCCR1B = 0)
  /\ pc = "f_read" =>
       /\ ~tov0
       /\ isr = "none"
       /\ pulses <= 65535 => FRQ_highByte * 256 + TCNT0 = pulses

\* C24 witness: the gate routine has cleared the flag after pulses were
\* counted, and the main line has not yet looked at it.
C24_Witness ==
  /\ pc = "f_wait"
  /\ FRQ_busy = 0
  /\ isr = "none"
  /\ pulses = 600
  /\ TCCR0B = 0
  /\ TCCR1B = 0

\* C26: the value ICSP_readSignature returns is the reply to the read of
\* signature byte 1 times 256 plus the reply to the read of signature
\* byte 2, for every pair of reply bytes; the two reads (0x30 0x00 0x01
\* and 0x30 0x00 0x02, in either order) are all it sends, so signature
\* byte 0 is not read.
C26_SignatureComposed ==
  pc = "lookup" =>
    /\ signature = rsig[1] * 256 + rsig[2]
    /\ Len(sent) = 2
    /\ {sent[1], sent[2]} = {<< 48, 0, 1, 0 >>, << 48, 0, 2, 0 >>}
    /\ \A k \in 1 .. Len(sent) : sent[k][1] = 48 => sent[k][3] # 0

\* C26 witness: the replies 0x93 and 0x0C have been composed to 0x930C.
C26_Witness ==
  /\ pc = "lookup"
  /\ rsig = << 147, 12 >>
  /\ signature = 37644

\* The fuse-write instructions among a sequence of instructions, in order.
FuseWrites(q) ==
  SelectSeq(q, LAMBDA i : i[1] = 172 /\ i[2] \in {160, 164, 168})

\* C25: ICSP_writeFuses sends exactly three fuse-write instructions, low
\* (0xAC 0xA0), high (0xAC 0xA8), extended (0xAC 0xA4) in this order, each with
\* the fuse byte of the active target: for every entry of the table, and in
\* every run once the fuses step is done.
C25_FuseOrder ==
  /\ \A t \in 1 .. TGT_LENGTH :
       ICSP_writeFuses_instrs(TGTs[t]) =
         << << 172, 160, 0, TGTs[t].LFUSE >>,
            << 172, 168, 0, TGTs[t].HFUSE >>,
            << 172, 164, 0, TGTs[t].EFUSE >> >>
  /\ pc = "flash" =>
       /\ FuseWrites(sent) =
            << << 172, 160, 0, TGT.LFUSE >>,
               << 172, 168, 0, TGT.HFUSE >>,
               << 172, 164, 0, TGT.EFUSE >> >>
       /\ SubSeq(sent, Len(sent) - 2, Len(sent)) = FuseWrites(sent)

\* The fuses of an ATtiny13 (no extended fuse byte: 0xFF is sent) are written.
C25_Witness ==
  /\ pc = "flash"
  /\ TGT.SIG = 36871
  /\ FuseWrites(sent) = << << 172, 160, 0, 106 >>, << 172, 168, 0, 255 >>,
                           << 172, 164, 0, 255 >> >>

\* The descriptors of the table.
TableTargets == {TGTs[t] : t \in 1 .. TGT_LENGTH}

PowersOfTwo == {1, 2, 4, 8, 16, 32, 64, 128, 256, 512, 1024, 2048, 4096,
                8192, 16384, 32768}

\* C27: every entry of the table has a non-zero even image length, equal to
\* the size of its image, and a power-of-two page size; on such an entry
\* ICSP_writeFlash reads two image bytes per pass, both inside the image,
\* and leaves its loop after PROG_LENGTH / 2 passes with exactly PROG_LENGTH
\* bytes read and loaded.
C27_ImageReadExactly ==
  /\ \A T \in TableTargets :
       /\ T.PROG_LENGTH # 0
       /\ T.PROG_LENGTH % 2 = 0
       /\ T.PROG_LENGTH = Len(T.PROG)
       /\ T.PSIZE \in PowersOfTwo
  /\ (TGT \in TableTargets /\ pc = "wf_loop") =>
       /\ wf.p = 2 * wf.addr
       /\ wf.p + 1 < Len(TGT.PROG)
  /\ (TGT \in TableTargets /\ pc \in {"wf_tail", "wf_done"}) =>
       /\ wf.addr = TGT.PROG_LENGTH \div 2
       /\ wf.p = TGT.PROG_LENGTH
       /\ Len(FlashLoads) = TGT.PROG_LENGTH
       /\ \A k \in 1 .. Len(FlashLoads) :
            FlashLoads[k][4] = TGT.PROG[2 * AddrOf(FlashLoads[k]) +
                                        (IF FlashLoads[k][1] = 72 THEN 2 ELSE 1)]

\* ICSP_writeFlash is through with the 94-byte image of the ATmega8 entry.
C27_Witness ==
  /\ pc = "wf_done"
  /\ TGT.SIG = 37639
  /\ wf.addr = 47
  /\ wf.p = 94

\* C28: whenever FRQ_measure is about to start or is running, the last EEPROM
\* write instruction of the run is the write of the current trial value calib
\* to address 0, and no instruction was sent after it; the measurement is
\* filed under that same value.
C28_MeasuredUnderTrial ==
  /\ pc \in {"measure", "sampling"} =>
       /\ eeLog # << >>
       /\ eeLog[Len(eeLog)] = << 192, 0, 0, calib >>
       /\ sent # << >>
       /\ sent[Len(sent)] = eeLog[Len(eeLog)]
  /\ pc \in {"compare", "record"} =>
       /\ meas # << >>
       /\ meas[Len(meas)] = << calib, frequency >>
       /\ eeLog[Len(eeLog)] = << 192, 0, 0, meas[Len(meas)][1] >>

\* The second measurement of a run starts, with the trial value stepped
\* down from 255 to 254 and written.
C28_Witness ==
  /\ pc = "measure"
  /\ Len(meas) = 1
  /\ meas[1][1] = 255
  /\ calib = 254
  /\ eeLog = << << 192, 0, 0, 255 >>, << 192, 0, 0, 254 >> >>

\* Positions of main() from the first statement after memcpy_P to the last
\* one of the run: all uses of a TGT field lie here.
AfterCopyPcs ==
  {"readcalib", "erase", "fuses", "flash", "eeprom", "exit", "init",
   "measure", "sampling", "compare", "record", "adjust", "loop_enter",
   "loop_write", "loop_exit", "commit_enter", "commit_write", "commit_exit"}

\* Positions of a run that found no entry for its signature.
FailedPcs == {"nomatch", "errwait"}

\* C30: wherever a run uses a field of TGT, TGT is the table entry whose
\* signature the run has read; TGT changes only in the copy step of a match,
\* the run gets past the copy step only through it, and a run without a
\* match goes to its error banner and back to the start screen with TGT
\* untouched and no step that uses it.
C30_OwnDescriptor ==
  /\ [](pc \in AfterCopyPcs =>
         /\ target < TGT_LENGTH
         /\ TGT = TGTs[target + 1]
         /\ TGT.SIG = signature
         /\ signature = rsig[1] * 256 + rsig[2])
  /\ [][/\ TGT' # TGT => (pc = "copy" /\ TGT'.SIG = signature)
        /\ signature' # signature => pc = "readsig"
        /\ pc' = "copy" => (pc = "lookup" /\ \E t \in 1 .. TGT_LENGTH :
                                               TGTs[t].SIG = signature)
        /\ (pc' \in AfterCopyPcs /\ pc \notin AfterCopyPcs) => pc = "copy"
        /\ pc' \in FailedPcs =>
             (pc \in FailedPcs \cup {"lookup"} /\ TGT' = TGT)
        /\ pc \in FailedPcs => pc' \in FailedPcs \cup {"idle"}]_vars

\* A run on an 8 MHz target has replaced the descriptor an earlier run on an
\* ATtiny13 left behind (its last frequency, 9600 kHz, is still in place).
C30_Witness ==
  /\ pc = "fuses"
  /\ prior = "completed"
  /\ frequency = 9600
  /\ TGT.FREQ = 8000
  /\ TGT.SIG = signature

\* The byte a reader takes from the four glyphs of OLED_printHex.
HexShown(g) == g[3] * 16 + g[4]

\* The number a reader takes from the five glyphs of OLED_printDec.
DecShown(g) ==
  LET d(k) == IF g[k] = SPACE THEN 0 ELSE g[k]
  IN d(1) * 10000 + d(2) * 1000 + d(3) * 100 + d(4) * 10 + d(5)

\* The <<value, frequency>> read off display row 2.
ShownTrial == << HexShown(shown.hex), DecShown(shown.dec) >>

\* C29: at the completion banner row 2 reads the value the commit wrote to
\* EEPROM address 0 and the frequency measured with it, the last accepted
\* trial of the run; row 2 is printed only in the record step, that is for
\* a trial the loop test has accepted, and reads that trial afterwards; the
\* first trial of a run always gets there.
C29_DisplayedIsCommitted ==
  /\ [](pc = "donewait" =>
         /\ SubSeq(shown.hex, 1, 2) = << 0, 19 >>
         /\ eeLog[Len(eeLog)] = << 192, 0, 0, HexShown(shown.hex) >>
         /\ \E k \in 1 .. Len(meas) :
              /\ meas[k] = ShownTrial
              /\ k >= Len(meas) - 1
              /\ k < Len(meas) => Deviation(Len(meas)) >= Deviation(k)
              /\ \A j \in 1 .. k - 1 : Deviation(j) > Deviation(k))
  /\ [][/\ shown' # shown => pc = "record"
        /\ pc = "record" =>
             /\ ~LeaveLoop(frequency, TGT.FREQ, difference)
             /\ ShownTrial' = << calib, frequency >>
             /\ ShownTrial' = meas[Len(meas)]
             /\ lastcalib' = calib
        /\ (pc = "compare" /\ Len(meas) = 1) => pc' = "record"]_vars

\* A run ends with its second trial (0xFE, 7999 kHz) rejected: row 2 still
\* reads 0xFF and 8001, the first trial, and 0xFF is what was committed.
C29_Witness ==
  /\ pc = "donewait"
  /\ meas = << << 255, 8001 >>, << 254, 7999 >> >>
  /\ shown = [hex |-> << 0, 19, 15, 15 >>, dec |-> << SPACE, 8, 0, 0, 1 >>]
  /\ eeLog[Len(eeLog)] = << 192, 0, 0, 255 >>

\* The byte whose bits, most significant first, are the levels of q.
RECURSIVE MsbFirst(_)
MsbFirst(q) ==
  IF q = << >> THEN 0 ELSE 2 * MsbFirst(SubSeq(q, 1, Len(q) - 1)) + q[Len(q)]

\* C31: after k passes ICSP_sendByte(b) has put the k most significant bits
\* of b on MOSI, bit 7 first, and taken k samples of MISO; it leaves its loop
\* after eight passes, and the value it returns is the eight samples read
\* most significant first, whatever b was; MOSI is left at bit 0 of b, SCK
\* low.
C31_ShiftMsbFirst ==
  /\ pc \in {"sb_loop", "sb_return", "sb_done"} =>
       /\ Len(sb.mosi) = 8 - sb.i
       /\ Len(sb.miso) = 8 - sb.i
       /\ \A k \in 1 .. Len(sb.mosi) :
            sb.mosi[k] = (sb.arg \div (2 ^ (8 - k))) % 2
       /\ "SCK" \notin PORTA
  /\ pc = "sb_loop" => sb.i \in 1 .. 8
  /\ pc \in {"sb_return", "sb_done"} =>
       /\ sb.i = 0
       /\ MsbFirst(sb.mosi) = sb.arg
       /\ sb.byte = MsbFirst(sb.miso)
       /\ PORTA = PortAfterSend({"BUTTON"}, sb.arg)
  /\ pc = "sb_done" => echo = MsbFirst(sb.miso)

\* ICSP_sendByte(0xAC) has returned 0x53, sampled as 0,1,0,1,0,0,1,1.
C31_Witness ==
  /\ pc = "sb_done"
  /\ sb.arg = 172
  /\ sb.mosi = << 1, 0, 1, 0, 1, 1, 0, 0 >>
  /\ sb.miso = << 0, 1, 0, 1, 0, 0, 1, 1 >>
  /\ echo = 83
====
